---- MODULE Spec2Model ----
(***************************************************************************)
(* Configurations for resistive processing units                          *)
(* (aihwkit/simulator/configs/configs.py).                                 *)
(*                                                                         *)
(* The four dataclasses FloatingPointRPUConfig, SingleRPUConfig,           *)
(* UnitCellRPUConfig and InferenceRPUConfig are modelled over a heap of    *)
(* nested parameter objects: a configuration holds a reference per field,  *)
(* the heap holds the object a reference denotes.  Floats are scaled to    *)
(* integers: diffusion / lifetime 0.0 -> 0 and a positive value -> 1;      *)
(* out_noise is counted in hundredths (0.06 -> 6, -0.01 -> -1).            *)
(***************************************************************************)
EXTENDS Integers, Sequences, FiniteSets, TLC

VARIABLES
    objs,      \* objs[i]: the configuration instance named i (kind, field references)
    heap,      \* heap[r]: the nested parameter object the reference r denotes
    last,      \* the most recent call: operation ("set" for every mutation), instance,
               \* argument, outcome
    bindings,  \* bindings[i]: native object obtained from i since its last field change
    diffSeen   \* diffSeen[i]: i.requires_diffusion() has returned true before

vars == <<objs, heap, last, bindings, diffSeen>>

\* Longest list of unit-cell sub-devices the model builds.
MaxCell == 3
\* Most keyword arguments one constructor call passes.
MaxArgs == 1

Insts == {"a", "b"}

Kinds == {"FloatingPointRPUConfig", "SingleRPUConfig",
          "UnitCellRPUConfig", "InferenceRPUConfig"}

Fields == {"device", "forward", "backward", "update",
           "noise_model", "drift_compensation", "clip", "modifier"}

Refs == (Insts \cup Kinds) \X Fields

NoObj == [cls |-> "none"]
NoCfg == [kind |-> "none"]
NoBindings == [has |-> FALSE]

(***************************************************************************)
(* Nested parameter classes (aihwkit.simulator.configs.devices / .utils,   *)
(* aihwkit.simulator.noise_models).                                        *)
(***************************************************************************)
Device(cls, diffusion, lifetime) ==
    [cls |-> cls, diffusion |-> diffusion, lifetime |-> lifetime]

FloatingPointDevice == Device("FloatingPointDevice", 0, 0)
ConstantStepDevice  == Device("ConstantStepDevice", 0, 0)
IdealDevice         == Device("IdealDevice", 0, 0)

UnitCellDevice(cell) == [cls |-> "UnitCellDevice", unit_cell_devices |-> cell]

IOParameters(is_perfect, out_noise) ==
    [cls |-> "IOParameters", is_perfect |-> is_perfect, out_noise |-> out_noise]

UpdateParameters(pulse_type) ==
    [cls |-> "UpdateParameters", pulse_type |-> pulse_type]

PulseTypes == {"NONE", "STOCHASTIC_COMPRESSED"}

Opaque(cls) == [cls |-> cls]

(***************************************************************************)
(* The dataclass field tables: field name |-> the value its                *)
(* default_factory builds.                                                 *)
(***************************************************************************)
FloatingPointRPUConfig_fields == [device |-> FloatingPointDevice]

SingleRPUConfig_fields ==
    [device   |-> ConstantStepDevice,
     forward  |-> IOParameters(FALSE, 6),
     backward |-> IOParameters(FALSE, 6),
     update   |-> UpdateParameters("STOCHASTIC_COMPRESSED")]

UnitCellRPUConfig_fields ==
    [device   |-> UnitCellDevice(<<>>),
     forward  |-> IOParameters(FALSE, 6),
     backward |-> IOParameters(FALSE, 6),
     update   |-> UpdateParameters("STOCHASTIC_COMPRESSED")]

InferenceRPUConfig_fields ==
    [forward            |-> IOParameters(FALSE, 6),
     noise_model        |-> Opaque("PCMLikeNoiseModel"),
     drift_compensation |-> Opaque("GlobalDriftCompensation"),
     clip               |-> Opaque("WeightClipParameter"),
     modifier           |-> Opaque("WeightModifierParameter"),
     device             |-> IdealDevice,
     backward           |-> IOParameters(TRUE, 6),
     update             |-> UpdateParameters("NONE")]

\* The fields of InferenceRPUConfig that __init__ accepts (init=True).
InferenceRPUConfig_init_all ==
    DOMAIN InferenceRPUConfig_fields

InferenceRPUConfig_init ==
    {"forward", "noise_model", "drift_compensation", "clip", "modifier"}

ClassFields(kind) ==
    CASE kind = "FloatingPointRPUConfig" -> FloatingPointRPUConfig_fields
      [] kind = "SingleRPUConfig"        -> SingleRPUConfig_fields
      [] kind = "UnitCellRPUConfig"      -> UnitCellRPUConfig_fields
      [] kind = "InferenceRPUConfig"     -> InferenceRPUConfig_fields

InitFields(kind) ==
    IF kind = "InferenceRPUConfig"
    THEN InferenceRPUConfig_init
    ELSE DOMAIN ClassFields(kind)

\* field(default=X()): one object built at class definition, shared by every instance.
shared_default(self, kind, f) == <<kind, f>>

\* field(default_factory=X): every construction builds an object of its own.
default_factory(self, kind, f) == <<self, f>>

(***************************************************************************)
(* Values a caller passes or assigns.                                      *)
(***************************************************************************)
PhysVals == {0, 1}
NoiseVals == {-1, 6}

DeviceCls(kind) ==
    CASE kind = "FloatingPointRPUConfig" -> "FloatingPointDevice"
      [] kind = "SingleRPUConfig"        -> "ConstantStepDevice"
      [] kind = "UnitCellRPUConfig"      -> "UnitCellDevice"
      [] kind = "InferenceRPUConfig"     -> "IdealDevice"

SubDevices == {Device("ConstantStepDevice", d, l) : d \in PhysVals, l \in PhysVals}

\* A unit cell is passed or assigned empty or with one sub-device; AppendDevice
\* grows it up to MaxCell sub-devices.
DeviceVals(kind) ==
    IF kind = "UnitCellRPUConfig"
    THEN {UnitCellDevice(<<>>)} \cup {UnitCellDevice(<<d>>) : d \in SubDevices}
    ELSE {Device(DeviceCls(kind), d, l) : d \in PhysVals, l \in PhysVals}

IOVals == {IOParameters(p, n) : p \in BOOLEAN, n \in NoiseVals}

UpdateVals == {UpdateParameters(t) : t \in PulseTypes}

ArgVals(kind, f) ==
    CASE f = "device"                  -> DeviceVals(kind)
      [] f \in {"forward", "backward"} -> IOVals
      [] f = "update"                  -> UpdateVals
      [] f = "noise_model"             -> {Opaque("PCMLikeNoiseModel"), Opaque("CustomNoiseModel")}
      [] f = "drift_compensation"      -> {Opaque("GlobalDriftCompensation"), Opaque("CustomDriftCompensation")}
      [] f = "clip"                    -> {Opaque("WeightClipParameter"), Opaque("CustomClip")}
      [] f = "modifier"                -> {Opaque("WeightModifierParameter"), Opaque("CustomModifier")}

\* The keyword-argument dictionaries over the names S.
RECURSIVE KwargsOver(_, _)
KwargsOver(kind, S) ==
    IF S = {}
    THEN {<<>>}
    ELSE LET f == CHOOSE x \in S : TRUE
         IN  {kw @@ (f :> v) : kw \in KwargsOver(kind, S \ {f}), v \in ArgVals(kind, f)}

\* The keyword-argument dictionaries of at most MaxArgs entries.
Kwargs(kind) ==
    UNION {KwargsOver(kind, S) : S \in {T \in SUBSET Fields : Cardinality(T) <= MaxArgs}}

NoKwargs == <<>>

(***************************************************************************)
(* Reading an instance.                                                    *)
(***************************************************************************)
Exists(i) == objs[i].kind # "none"

Get(self, f) == heap[objs[self].refs[f]]

\* The field values of an instance, as a caller reads them.
View(i) ==
    IF Exists(i)
    THEN [kind |-> objs[i].kind,
          fields |-> [f \in DOMAIN objs[i].refs |-> Get(i, f)]]
    ELSE [kind |-> "none"]

DefaultView(kind) == [kind |-> kind, fields |-> ClassFields(kind)]

(***************************************************************************)
(* The bindings translator (aihwkit.simulator.configs.utils):              *)
(* tile_parameters_to_bindings builds the native analog-tile parameter     *)
(* object, or fails.                                                       *)
(***************************************************************************)
Failure(error) == [ok |-> FALSE, error |-> error]

device_to_bindings(dev) ==
    [type |-> dev.cls, diffusion |-> dev.diffusion, lifetime |-> dev.lifetime]

io_to_bindings(io) == [is_perfect |-> io.is_perfect, out_noise |-> io.out_noise]

\* The sub-devices pushed to the front of the native list: the order comes out reversed.
devices_to_bindings_reversed(devs) ==
    [k \in 1..Len(devs) |-> device_to_bindings(devs[Len(devs) + 1 - k])]

\* The native device list: every sub-device, in the order of the unit cell.
devices_to_bindings(devs) ==
    [k \in 1..Len(devs) |-> device_to_bindings(devs[k])]

Translate(dev, fwd, bwd, upd) ==
    IF dev.cls = "UnitCellDevice" /\ Len(dev.unit_cell_devices) = 0
    THEN Failure("ConfigError")
    ELSE IF fwd.out_noise < 0 \/ bwd.out_noise < 0
    THEN Failure("ValueError")
    ELSE [ok          |-> TRUE,
          device      |-> IF dev.cls = "UnitCellDevice"
                          THEN devices_to_bindings(dev.unit_cell_devices)
                          ELSE devices_to_bindings(<<dev>>),
          forward_io  |-> io_to_bindings(fwd),
          backward_io |-> io_to_bindings(bwd),
          update      |-> [pulse_type |-> upd.pulse_type]]

tile_parameters_to_bindings(self) ==
    Translate(Get(self, "device"), Get(self, "forward"),
              Get(self, "backward"), Get(self, "update"))

\* What the translator yields for a default single-device configuration.
DefaultSingleBindings ==
    Translate(ConstantStepDevice, IOParameters(FALSE, 6),
              IOParameters(FALSE, 6), UpdateParameters("STOCHASTIC_COMPRESSED"))

(***************************************************************************)
(* The methods of the four classes.  self is the name of the instance.     *)
(***************************************************************************)
\* ">= 0.0" written for "> 0.0".
FloatingPointRPUConfig_requires_diffusion_ge(self) ==
    Get(self, "device").diffusion >= 0

FloatingPointRPUConfig_requires_diffusion(self) ==
    Get(self, "device").diffusion > 0

FloatingPointRPUConfig_requires_decay(self) ==
    Get(self, "device").lifetime > 0

\* The native object of the previous as_bindings call kept at class level and returned again.
SingleRPUConfig_as_bindings_cached(self) ==
    IF last.op = "as_bindings"
    THEN last.ret
    ELSE tile_parameters_to_bindings(self)

SingleRPUConfig_as_bindings(self) ==
    tile_parameters_to_bindings(self)

\* A true result kept in a flag of the instance that is never cleared.
SingleRPUConfig_requires_diffusion_sticky(self) ==
    diffSeen[self] \/ Get(self, "device").diffusion > 0

SingleRPUConfig_requires_diffusion(self) ==
    Get(self, "device").diffusion > 0

SingleRPUConfig_requires_decay(self) ==
    Get(self, "device").lifetime > 0

\* The translator's failure caught and a default single device returned instead.
UnitCellRPUConfig_as_bindings_fallback(self) ==
    IF tile_parameters_to_bindings(self).ok
    THEN tile_parameters_to_bindings(self)
    ELSE DefaultSingleBindings

UnitCellRPUConfig_as_bindings(self) ==
    tile_parameters_to_bindings(self)

UnitCellRPUConfig_requires_diffusion(self) ==
    LET cell == Get(self, "device").unit_cell_devices
    IN  \E k \in 1..Len(cell) : cell[k].diffusion > 0

\* all() written for any().
UnitCellRPUConfig_requires_decay_all(self) ==
    LET cell == Get(self, "device").unit_cell_devices
    IN  \A k \in 1..Len(cell) : cell[k].lifetime > 0

UnitCellRPUConfig_requires_decay(self) ==
    LET cell == Get(self, "device").unit_cell_devices
    IN  \E k \in 1..Len(cell) : cell[k].lifetime > 0

\* The translator's failure caught and a default native object returned instead.
InferenceRPUConfig_as_bindings_swallow(self) ==
    IF tile_parameters_to_bindings(self).ok
    THEN tile_parameters_to_bindings(self)
    ELSE DefaultSingleBindings

InferenceRPUConfig_as_bindings(self) ==
    tile_parameters_to_bindings(self)

InferenceRPUConfig_requires_diffusion(self) ==
    Get(self, "device").diffusion > 0

InferenceRPUConfig_requires_decay(self) ==
    Get(self, "device").lifetime > 0

\* Method dispatch on the class of the instance.
requires_diffusion(self) ==
    CASE objs[self].kind = "FloatingPointRPUConfig" -> FloatingPointRPUConfig_requires_diffusion(self)
      [] objs[self].kind = "SingleRPUConfig"        -> SingleRPUConfig_requires_diffusion(self)
      [] objs[self].kind = "UnitCellRPUConfig"      -> UnitCellRPUConfig_requires_diffusion(self)
      [] objs[self].kind = "InferenceRPUConfig"     -> InferenceRPUConfig_requires_diffusion(self)

requires_decay(self) ==
    CASE objs[self].kind = "FloatingPointRPUConfig" -> FloatingPointRPUConfig_requires_decay(self)
      [] objs[self].kind = "SingleRPUConfig"        -> SingleRPUConfig_requires_decay(self)
      [] objs[self].kind = "UnitCellRPUConfig"      -> UnitCellRPUConfig_requires_decay(self)
      [] objs[self].kind = "InferenceRPUConfig"     -> InferenceRPUConfig_requires_decay(self)

as_bindings(self) ==
    CASE objs[self].kind = "SingleRPUConfig"    -> SingleRPUConfig_as_bindings(self)
      [] objs[self].kind = "UnitCellRPUConfig"  -> UnitCellRPUConfig_as_bindings(self)
      [] objs[self].kind = "InferenceRPUConfig" -> InferenceRPUConfig_as_bindings(self)

(***************************************************************************)
(* Initial state: no configuration has been constructed.                   *)
(***************************************************************************)
Init ==
    /\ objs = [i \in Insts |-> NoCfg]
    /\ heap = [r \in Refs |-> NoObj]
    /\ last = [op |-> "init", inst |-> "a", arg |-> "", ret |-> "ok"]
    /\ bindings = [i \in Insts |-> NoBindings]
    /\ diffSeen = [i \in Insts |-> FALSE]

Called(op, i, arg, ret) == [op |-> op, inst |-> i, arg |-> arg, ret |-> ret]

(***************************************************************************)
(* i = kind(keywords kw): the __init__ the dataclass decorator generates.  *)
(* A                                                                       *)
(* keyword that is not an init field raises TypeError and no instance is   *)
(* produced; otherwise every field is bound to the passed object or to a   *)
(* product of its default_factory.                                          *)
(***************************************************************************)
Construct(i, kind, kw) ==
    /\ ~Exists(i)
    /\ IF DOMAIN kw \subseteq InitFields(kind)
       THEN LET refs == [f \in DOMAIN ClassFields(kind) |->
                            IF f \in DOMAIN kw
                            THEN <<i, f>>
                            ELSE default_factory(i, kind, f)]
            IN  /\ objs' = [objs EXCEPT ![i] = [kind |-> kind, refs |-> refs]]
                /\ heap' = [r \in Refs |->
                              IF \E f \in DOMAIN refs : refs[f] = r
                              THEN LET f == CHOOSE g \in DOMAIN refs : refs[g] = r
                                   IN  IF f \in DOMAIN kw
                                       THEN kw[f]
                                       ELSE IF heap[r].cls = "none"
                                            THEN ClassFields(kind)[f]
                                            ELSE heap[r]
                              ELSE heap[r]]
                /\ last' = Called("construct", i, [kind |-> kind, names |-> DOMAIN kw], "ok")
       ELSE /\ UNCHANGED <<objs, heap>>
            /\ last' = Called("construct", i, [kind |-> kind, names |-> DOMAIN kw], "TypeError")
    /\ UNCHANGED <<bindings, diffSeen>>

\* i.f = v: the field is bound to the (new) object v.  The dataclasses are not frozen.
SetField(i, f, v) ==
    /\ Exists(i)
    /\ f \in DOMAIN objs[i].refs
    /\ objs' = [objs EXCEPT ![i].refs[f] = <<i, f>>]
    /\ heap' = [heap EXCEPT ![<<i, f>>] = v]
    /\ last' = Called("set", i, "", "ok")
    /\ bindings' = [bindings EXCEPT ![i] = NoBindings]
    /\ UNCHANGED diffSeen

AttrVals(attr) ==
    CASE attr \in {"diffusion", "lifetime"} -> PhysVals
      [] attr = "is_perfect"                -> BOOLEAN
      [] attr = "out_noise"                 -> NoiseVals
      [] attr = "pulse_type"                -> PulseTypes

Attrs == {"diffusion", "lifetime", "is_perfect", "out_noise", "pulse_type"}

\* i.f.attr = v: the nested object is changed in place.
SetAttr(i, f, attr, v) ==
    /\ Exists(i)
    /\ f \in DOMAIN objs[i].refs
    /\ attr \in DOMAIN Get(i, f)
    /\ heap' = [heap EXCEPT ![objs[i].refs[f]][attr] = v]
    /\ last' = Called("set", i, "", "ok")
    /\ bindings' = [bindings EXCEPT ![i] = NoBindings]
    /\ UNCHANGED <<objs, diffSeen>>

IsUnitCell(i) == Exists(i) /\ Get(i, "device").cls = "UnitCellDevice"

\* i.device.unit_cell_devices.append(d)
AppendDevice(i, d) ==
    /\ IsUnitCell(i)
    /\ Len(Get(i, "device").unit_cell_devices) < MaxCell
    /\ heap' = [heap EXCEPT ![objs[i].refs["device"]].unit_cell_devices = Append(@, d)]
    /\ last' = Called("set", i, "", "ok")
    /\ bindings' = [bindings EXCEPT ![i] = NoBindings]
    /\ UNCHANGED <<objs, diffSeen>>

\* del i.device.unit_cell_devices[k - 1]
RemoveDevice(i, k) ==
    /\ IsUnitCell(i)
    /\ k \in 1..Len(Get(i, "device").unit_cell_devices)
    /\ heap' = [heap EXCEPT ![objs[i].refs["device"]].unit_cell_devices =
                    SubSeq(@, 1, k - 1) \o SubSeq(@, k + 1, Len(@))]
    /\ last' = Called("set", i, "", "ok")
    /\ bindings' = [bindings EXCEPT ![i] = NoBindings]
    /\ UNCHANGED <<objs, diffSeen>>

\* i.device.unit_cell_devices[k - 1].attr = v
SetSubAttr(i, k, attr, v) ==
    /\ IsUnitCell(i)
    /\ k \in 1..Len(Get(i, "device").unit_cell_devices)
    /\ heap' = [heap EXCEPT ![objs[i].refs["device"]].unit_cell_devices[k][attr] = v]
    /\ last' = Called("set", i, "", "ok")
    /\ bindings' = [bindings EXCEPT ![i] = NoBindings]
    /\ UNCHANGED <<objs, diffSeen>>

\* i.requires_diffusion()
RequiresDiffusion(i) ==
    /\ Exists(i)
    /\ last' = Called("requires_diffusion", i, "", requires_diffusion(i))
    /\ diffSeen' = [diffSeen EXCEPT ![i] = @ \/ requires_diffusion(i)]
    /\ UNCHANGED <<objs, heap, bindings>>

\* i.requires_decay()
RequiresDecay(i) ==
    /\ Exists(i)
    /\ last' = Called("requires_decay", i, "", requires_decay(i))
    /\ UNCHANGED <<objs, heap, bindings, diffSeen>>

\* i.as_bindings(): the three classes that define it.
AsBindings(i) ==
    /\ Exists(i)
    /\ objs[i].kind # "FloatingPointRPUConfig"
    /\ last' = Called("as_bindings", i, "", as_bindings(i))
    /\ bindings' = [bindings EXCEPT ![i] = [has |-> TRUE, val |-> as_bindings(i)]]
    /\ UNCHANGED <<objs, heap, diffSeen>>

(***************************************************************************)
(* One instance, every class, every keyword and every field value.         *)
(***************************************************************************)
Solo == {"a"}

\* The keyword arguments a caller passes to build i.
Passable(i, kind) == IF Exists(i) THEN {} ELSE Kwargs(kind)

\* The objects a caller assigns to the field f of i.
Assignable(i, f) == IF Exists(i) THEN ArgVals(objs[i].kind, f) ELSE {}

TileFields == {"device", "forward", "backward", "update"}

Next ==
    \/ \E i \in Solo, kind \in Kinds : \E kw \in Passable(i, kind) : Construct(i, kind, kw)
    \/ \E i \in Solo, f \in TileFields : \E v \in Assignable(i, f) : SetField(i, f, v)
    \/ \E i \in Solo, f \in TileFields, attr \in Attrs :
          \E v \in AttrVals(attr) : SetAttr(i, f, attr, v)
    \/ \E i \in Solo, d \in SubDevices : AppendDevice(i, d)
    \/ \E i \in Solo, k \in 1..MaxCell : RemoveDevice(i, k)
    \/ \E i \in Solo, k \in 1..MaxCell, attr \in {"diffusion", "lifetime"} :
          \E v \in PhysVals : SetSubAttr(i, k, attr, v)
    \/ \E i \in Solo : RequiresDiffusion(i)
    \/ \E i \in Solo : RequiresDecay(i)
    \/ \E i \in Solo : AsBindings(i)

Spec == Init /\ [][Next]_vars

(***************************************************************************)
(* Two instances constructed with defaults; their device, forward,         *)
(* backward and update values are then replaced or changed in place.       *)
(***************************************************************************)
\* A new object of the field's default, as its default_factory builds it.
Rebuilt(i, f) ==
    IF Exists(i) /\ f \in DOMAIN objs[i].refs
    THEN {ClassFields(objs[i].kind)[f]}
    ELSE {}

PairAttrs == {"diffusion", "lifetime", "is_perfect", "pulse_type"}

NextPair ==
    \/ \E i \in Insts, kind \in Kinds : Construct(i, kind, NoKwargs)
    \/ \E i \in Insts, f \in TileFields : \E v \in Rebuilt(i, f) : SetField(i, f, v)
    \/ \E i \in Insts, f \in TileFields, attr \in PairAttrs :
          \E v \in AttrVals(attr) : SetAttr(i, f, attr, v)
    \/ \E i \in Insts : AsBindings(i)

SpecPair == Init /\ [][NextPair]_vars

TypeOK ==
    /\ \A i \in Insts : objs[i].kind \in Kinds \cup {"none"}
    /\ \A i \in Insts : Exists(i) => \A f \in DOMAIN objs[i].refs : Get(i, f).cls # "none"

(***************************************************************************)
(* Properties.                                                             *)
(***************************************************************************)
Queries == {"requires_diffusion", "requires_decay"}

IsKind(i, kind) == objs[i].kind = kind

\* The device parameter bundles an instance holds: the sub-devices of a unit
\* cell, the one device otherwise.
DeviceParams(i) ==
    LET dev == Get(i, "device")
    IN  IF dev.cls = "UnitCellDevice"
        THEN {dev.unit_cell_devices[k] : k \in 1..Len(dev.unit_cell_devices)}
        ELSE {dev}

\* C1: in every reachable state an InferenceRPUConfig has backward perfect
\* (is_perfect = TRUE) and update without pulses (pulse_type = NONE).
C1_InferenceBackwardUpdateFixed ==
    \A i \in Insts :
        IsKind(i, "InferenceRPUConfig") =>
            /\ Get(i, "backward").is_perfect = TRUE
            /\ Get(i, "update").pulse_type = "NONE"

\* C2: constructing an InferenceRPUConfig with device, backward or update among
\* the keywords raises and produces no instance; a construction that succeeds
\* yields the ideal device, the perfect backward I/O and the NONE update.
C2_InferenceConstruction ==
    (last.op = "construct" /\ last.arg.kind = "InferenceRPUConfig") =>
        /\ (last.arg.names \cap {"device", "backward", "update"} # {}) =>
               (last.ret = "TypeError" /\ ~Exists(last.inst))
        /\ (last.ret = "ok") =>
               /\ IsKind(last.inst, "InferenceRPUConfig")
               /\ Get(last.inst, "device") = IdealDevice
               /\ Get(last.inst, "backward") = IOParameters(TRUE, 6)
               /\ Get(last.inst, "update") = UpdateParameters("NONE")

C2_Witness ==
    /\ last.op = "construct"
    /\ last.arg.kind = "InferenceRPUConfig"
    /\ last.arg.names = {"backward"}
    /\ last.ret = "TypeError"

\* C3: on a UnitCellRPUConfig requires_decay() is true iff some sub-device has
\* lifetime > 0 and requires_diffusion() is true iff some sub-device has
\* diffusion > 0, for a sub-device list of any length.
C3_UnitCellAny ==
    (last.op \in Queries /\ IsKind(last.inst, "UnitCellRPUConfig")) =>
        LET cell == Get(last.inst, "device").unit_cell_devices
        IN  /\ last.op = "requires_decay" =>
                 (last.ret <=> ~(\A k \in 1..Len(cell) : cell[k].lifetime <= 0))
            /\ last.op = "requires_diffusion" =>
                 (last.ret <=> ~(\A k \in 1..Len(cell) : cell[k].diffusion <= 0))

C3_Witness ==
    /\ last.op = "requires_decay"
    /\ IsKind(last.inst, "UnitCellRPUConfig")
    /\ LET cell == Get(last.inst, "device").unit_cell_devices
       IN  /\ Len(cell) = 3
           /\ cell[1].lifetime = 0 /\ cell[2].lifetime = 1 /\ cell[3].lifetime = 0
    /\ last.ret = TRUE

\* C4: whatever mutations came before, requires_diffusion() and requires_decay()
\* return the value the device state has at the call; an earlier result is not
\* retained.
C4_NoStaleResult ==
    (last.op \in Queries) =>
        /\ last.op = "requires_diffusion" =>
             (last.ret <=> \E d \in DeviceParams(last.inst) : d.diffusion > 0)
        /\ last.op = "requires_decay" =>
             (last.ret <=> \E d \in DeviceParams(last.inst) : d.lifetime > 0)

\* requires_diffusion() returns false on an instance where it has returned true.
C4_Witness ==
    /\ last.op = "requires_diffusion"
    /\ IsKind(last.inst, "SingleRPUConfig")
    /\ diffSeen[last.inst]
    /\ last.ret = FALSE

\* C5: construction with no arguments succeeds for each of the four classes and
\* both queries return false on the instance it yields.
C5_DefaultsDisableBoth ==
    /\ (last.op = "construct" /\ last.arg.names = {}) =>
          /\ last.ret = "ok"
          /\ View(last.inst) = DefaultView(last.arg.kind)
    /\ (last.op \in Queries /\ View(last.inst) = DefaultView(objs[last.inst].kind)) =>
          last.ret = FALSE

C5_Witness ==
    /\ last.op = "requires_diffusion"
    /\ IsKind(last.inst, "FloatingPointRPUConfig")
    /\ View(last.inst) = DefaultView("FloatingPointRPUConfig")

\* C6: as_bindings() on a UnitCellRPUConfig without sub-devices fails; it never
\* yields the native object of a default single device.
C6_EmptyUnitCellRejected ==
    (/\ last.op = "as_bindings"
     /\ IsKind(last.inst, "UnitCellRPUConfig")
     /\ Len(Get(last.inst, "device").unit_cell_devices) = 0) =>
        /\ ~last.ret.ok
        /\ last.ret # DefaultSingleBindings

C6_Witness ==
    /\ last.op = "as_bindings"
    /\ IsKind(last.inst, "UnitCellRPUConfig")
    /\ Len(Get(last.inst, "device").unit_cell_devices) = 0
    /\ ~last.ret.ok

\* The native objects two SingleRPUConfig instances of equal field values yielded agree.
EqualFieldsEqualBindings ==
    \A i, j \in Insts :
        (/\ IsKind(i, "SingleRPUConfig") /\ IsKind(j, "SingleRPUConfig")
         /\ bindings[i].has /\ bindings[j].has
         /\ View(i) = View(j)) =>
            bindings[i].val = bindings[j].val

Permute(seq, p) == [k \in 1..Len(seq) |-> seq[p[k]]]

\* C8: the device list of the native object of a UnitCellRPUConfig holds the
\* sub-devices in their order, and permuting the sub-devices permutes the
\* device list the same way.
C8_OrderPreserved ==
    (last.op = "as_bindings" /\ IsKind(last.inst, "UnitCellRPUConfig") /\ last.ret.ok) =>
        LET cell == Get(last.inst, "device").unit_cell_devices
        IN  /\ Len(last.ret.device) = Len(cell)
            /\ \A k \in 1..Len(cell) :
                   /\ last.ret.device[k].diffusion = cell[k].diffusion
                   /\ last.ret.device[k].lifetime = cell[k].lifetime
            /\ \A p \in Permutations(1..Len(cell)) :
                   Translate(UnitCellDevice(Permute(cell, p)),
                             Get(last.inst, "forward"), Get(last.inst, "backward"),
                             Get(last.inst, "update")).device
                     = Permute(last.ret.device, p)

C8_Witness ==
    /\ last.op = "as_bindings"
    /\ IsKind(last.inst, "UnitCellRPUConfig")
    /\ last.ret.ok
    /\ LET cell == Get(last.inst, "device").unit_cell_devices
       IN  /\ Len(cell) = 3
           /\ cell[1] # cell[2] /\ cell[2] # cell[3] /\ cell[1] # cell[3]

\* C9: when the translator fails for the fields of an instance, as_bindings()
\* yields that failure and nothing else, and no field of the instance changes.
C9_FailurePropagated ==
    [][ (last'.op = "as_bindings") =>
           /\ objs' = objs
           /\ heap' = heap
           /\ ~tile_parameters_to_bindings(last'.inst).ok =>
                  last'.ret = tile_parameters_to_bindings(last'.inst) ]_vars

C9_Witness ==
    /\ last.op = "as_bindings"
    /\ IsKind(last.inst, "InferenceRPUConfig")
    /\ ~tile_parameters_to_bindings(last.inst).ok
    /\ ~last.ret.ok

\* What a caller observes of an instance: its field values and its two queries.
Observed(i) ==
    IF Exists(i)
    THEN [view |-> View(i), diffusion |-> requires_diffusion(i), decay |-> requires_decay(i)]
    ELSE [view |-> View(i)]

\* C10: a construction or mutation of one instance changes nothing that is
\* observed of another instance.
C10_NoSharedState ==
    [][ \A i \in Insts :
            (last'.inst = i /\ last'.op \in {"construct", "set"}) =>
                \A j \in Insts \ {i} : Exists(j) => Observed(j)' = Observed(j) ]_vars

C10_Witness ==
    /\ IsKind("a", "SingleRPUConfig") /\ IsKind("b", "InferenceRPUConfig")
    /\ last.op = "set" /\ last.inst = "a"
    /\ Get("a", "device").diffusion = 1
    /\ Get("a", "backward").is_perfect
    /\ Get("b", "device").diffusion = 0
    /\ Get("b", "forward").is_perfect = FALSE

====
